---- MODULE Spec2Model ----
(***************************************************************************)
(* Model of static/script.js, the client of the Bulls-or-Cows game page:   *)
(* the OTP digit boxes, the turn handlers (submitHumanGuess,               *)
(* triggerAiTurn, displayAiGuess, submitAiFeedback), the history lists,    *)
(* the win overlay and the timers and fetches that chain them.             *)
(*                                                                         *)
(* JavaScript runs each handler to its next await without interleaving,    *)
(* so one action is one handler run: from the event to the first await,    *)
(* or from the answer of the fetch to the end of the handler (its          *)
(* finally block included), or one timer callback.                         *)
(***************************************************************************)
EXTENDS Integers, Sequences, FiniteSets, TLC

\* ------------------------------------------------------------------ bounds
\* The number of guesses and feedbacks the service accepts in one behaviour.
MaxAccepted == 2

\* ------------------------------------------------------- program constants
\* The number of digit boxes of a group, and the length of a guess.
NumBoxes == 4
\* The largest value of the aiBulls / aiCows selects.
MaxScore == 4

Boxes == 0 .. (NumBoxes - 1)
NoFocus == 0 - 1

DigitChars == {"0", "1", "2", "3", "4", "5", "6", "7", "8", "9"}

\* ------------------------------------------------- inputs the model draws
\* What an input event finds in the box it fired on (e.target.value).
InputVals == { <<>>, <<"1">>, <<"x">>, <<"1", "x">> }
\* Clipboard texts.
ClipTexts == { <<>>, <<"1", "-", "1">>, <<"1", "1", "1", "1", "1">> }
Keys == {"Backspace", "ArrowLeft", "ArrowRight", "Enter"}
\* What the service may answer.
RespScores == { <<1, 1>>, <<4, 0>> }
AiGuesses == { <<"1", "2", "3", "4">>, <<"5", "6", "7", "8">> }
Secrets == { <<"5", "6", "7", "8">>, <<"9", "0", "1", "2">> }
NoSecret == <<>>
\* data.error: absent ("") or a message of the service.
ServiceErrors == {"", "Rejected by the service."}

VARIABLES
  boxValue,        \* guessInputs: the value of each .otp-box
  boxFilled,       \* guessInputs: whether each box has class 'filled'
  focus,           \* the focused box of guessInputs, or NoFocus
  humanCard,       \* style.display of #humanCard is not 'none'
  resultFlash,     \* ... of #resultFlash
  aiCard,          \* ... of #aiCard
  winOverlay,      \* ... of #winOverlay
  resultText,      \* what showResultFlash wrote
  humanError,      \* the text #humanError shows, "" when hidden
  aiError,         \* the text #aiError shows, "" when hidden
  btnHumanSubmit,  \* disabled flag of #btnHumanSubmit
  btnAiFeedback,   \* disabled flag of #btnAiFeedback
  aiBulls,         \* value of the #aiBulls select
  aiCows,          \* value of the #aiCows select
  aiGuessDisplay,  \* textContent of #aiGuessDisplay, without its blanks
  humanHistory,    \* rows of #humanHistory
  aiHistory,       \* rows of #aiHistory
  winTitle,        \* who #winTitle names
  winSecret,       \* what #winSecret shows
  confetti,        \* number of launchConfetti calls
  lastAlert,       \* the text of the last alert()
  inflight,        \* fetches awaiting their answer, in the order issued
  timers,          \* pending setTimeout callbacks
  intervals,       \* running setInterval callbacks of displayAiGuess
  svc,             \* what the service has answered so far
  batches,         \* the closures of the launchConfetti calls, in call order
  canvas,          \* what #confettiCanvas shows: the batch drawn last, or nothing
  events           \* the user's events on the boxes, in the recorded sessions

widgetVars == <<boxValue, boxFilled, focus>>
regionVars == <<humanCard, resultFlash, aiCard, winOverlay>>
humanVars == <<resultText, humanError, btnHumanSubmit, humanHistory>>
aiVars == <<aiError, btnAiFeedback, aiBulls, aiCows, aiGuessDisplay, aiHistory>>
winVars == <<winTitle, winSecret, confetti, batches, canvas>>
scriptVars == <<events>>
netVars == <<lastAlert, inflight, timers, intervals, svc>>
vars == <<widgetVars, regionVars, humanVars, aiVars, winVars, scriptVars, netVars>>

\* ------------------------------------------------------------- text helpers
RECURSIVE OnlyDigits(_)
\* str.replace(/[^0-9]/g, '')
OnlyDigits(s) ==
  IF s = <<>> THEN <<>>
  ELSE IF Head(s) \in DigitChars THEN <<Head(s)>> \o OnlyDigits(Tail(s))
       ELSE OnlyDigits(Tail(s))

\* str.slice(-1) as a box value: the last character, or ''
LastChar(s) == IF s = <<>> THEN "" ELSE s[Len(s)]

\* str.slice(0, 4)
FirstFour(s) == IF Len(s) <= NumBoxes THEN s ELSE SubSeq(s, 1, NumBoxes)

\* ------------------------------------------------------------ OTP boxes
\* getOtpValue: the boxes' values joined in order.
RECURSIVE JoinFrom(_, _)
JoinFrom(v, i) ==
  IF i > NumBoxes - 1 THEN <<>>
  ELSE (IF v[i] = "" THEN <<>> ELSE <<v[i]>>) \o JoinFrom(v, i + 1)

getOtpValue == JoinFrom(boxValue, 0)

\* A focus() that is never called.
FocusOnNever(idx) == focus

\* focus() on a box: nothing happens while the box is not rendered.
FocusOn(idx) == IF humanCard THEN idx ELSE focus

\* The input listener of box idx: what it does to the boxes.
Input(idx, val) ==
  /\ humanCard /\ focus = idx
  /\ LET digit == LastChar(OnlyDigits(val)) IN
       /\ boxValue' = [boxValue EXCEPT ![idx] = digit]
       /\ IF digit # ""
            THEN /\ boxFilled' = [boxFilled EXCEPT ![idx] = TRUE]
                 /\ focus' = IF idx < NumBoxes - 1 THEN FocusOn(idx + 1) ELSE focus
            ELSE /\ boxFilled' = [boxFilled EXCEPT ![idx] = FALSE]
                 /\ focus' = focus

\* An input event on box idx.
OnInput(idx, val) ==
  /\ Input(idx, val)
  /\ UNCHANGED <<regionVars, humanVars, aiVars, winVars, scriptVars, netVars>>

\* A paste that always ends in the last box.
FirstEmptyAlwaysLast(v) == NumBoxes - 1

\* The paste listener of box idx.
FirstEmpty(v) ==
  IF \E i \in Boxes : v[i] = ""
    THEN CHOOSE i \in Boxes : v[i] = "" /\ \A j \in Boxes : j < i => v[j] # ""
    ELSE NumBoxes - 1

OnPaste(idx, clip) ==
  /\ humanCard /\ focus = idx
  /\ LET pasted == FirstFour(OnlyDigits(clip))
         written == { i \in Boxes : i + 1 <= Len(pasted) }
         v == [i \in Boxes |-> IF i \in written THEN pasted[i + 1] ELSE boxValue[i]]
     IN
       /\ boxValue' = v
       /\ boxFilled' = [i \in Boxes |-> IF i \in written THEN TRUE ELSE boxFilled[i]]
       /\ focus' = FocusOn(FirstEmpty(v))
  /\ UNCHANGED <<regionVars, humanVars, aiVars, winVars, scriptVars, netVars>>

\* The click listener of box idx: the click focuses the box, select() keeps
\* its value.
OnClick(idx) ==
  /\ humanCard
  /\ focus' = idx
  /\ UNCHANGED <<boxValue, boxFilled, regionVars, humanVars, aiVars, winVars,
                 scriptVars, netVars>>

\* clearOtpBoxes('guessInputs'): the values and flags it leaves.
ClearedValues == [i \in Boxes |-> ""]
\* A clearOtpBoxes that forgets classList.remove('filled').
ClearedFlagsKept == boxFilled

ClearedFlags == [i \in Boxes |-> FALSE]

\* ------------------------------------------------------ small DOM helpers
\* A setButtonLoading that never disables the button.
setButtonLoadingNever(loading) == FALSE

\* A setButtonLoading that never enables the button again.
setButtonLoadingStuck(loading) == TRUE

\* setButtonLoading(btn, loading): the disabled flag it sets.
setButtonLoading(loading) == loading

\* A showError that leaves the element hidden.
showErrorHidden(err, fallback) == ""

\* showError(id, data.error || fallback): the text the element shows.
showError(err, fallback) == IF err = "" THEN fallback ELSE err

\* An addHistoryRow that loses the row.
addHistoryRowLost(list, guess, bulls, cows) == list

\* addHistoryRow(listId, guess, bulls, cows): the list with the new row.
addHistoryRow(list, guess, bulls, cows) ==
  Append(list, [guess |-> guess, bulls |-> bulls, cows |-> cows])

\* The emoji showResultFlash picks.
resultEmoji(bulls) == IF bulls = 4 THEN "party" ELSE IF bulls >= 2 THEN "fire" ELSE "target"

\* A fetch: the request as the closure of its handler keeps it.
Request(kind, guess, bulls, cows) ==
  [kind |-> kind, guess |-> guess, bulls |-> bulls, cows |-> cows]

\* inflight without its i-th fetch.
Answered(i) == SubSeq(inflight, 1, i - 1) \o SubSeq(inflight, i + 1, Len(inflight))

Accepted == svc.humanOk + svc.humanWin + svc.aiOk + svc.aiWin
CanFetch == Accepted < MaxAccepted

\* --------------------------------------------------------- the human turn
\* A length guard that only refuses the empty guess.
ValidGuessNonEmpty(guess) == Len(guess) > 0

\* if (guess.length !== 4)
ValidGuess(guess) == Len(guess) = NumBoxes

\* submitHumanGuess, up to its first await.
submitHumanGuess ==
  LET guess == getOtpValue IN
  IF ~ValidGuess(guess)
    THEN /\ humanError' = "Fill in all 4 digits."
         /\ UNCHANGED <<widgetVars, regionVars, resultText, btnHumanSubmit,
                        humanHistory, aiVars, winVars, scriptVars, netVars>>
    ELSE /\ CanFetch
         /\ humanError' = ""
         /\ btnHumanSubmit' = setButtonLoading(TRUE)
         /\ inflight' = Append(inflight, Request("human-turn", guess, 0, 0))
         /\ UNCHANGED <<widgetVars, regionVars, resultText, humanHistory,
                        aiVars, winVars, scriptVars, lastAlert, timers, intervals, svc>>

\* A click on #btnHumanSubmit: a hidden or disabled button takes no click.
ClickHumanSubmit ==
  /\ humanCard /\ ~btnHumanSubmit
  /\ submitHumanGuess

\* A Backspace that always clears the box it is pressed in.
backspaceTargetSame(idx) == idx

\* The box Backspace clears: the previous one when box idx is empty.
backspaceTarget(idx) == IF boxValue[idx] = "" /\ idx > 0 THEN idx - 1 ELSE idx

\* The keydown listener of box idx on Backspace: what it does to the boxes.
Backspace(idx) ==
  /\ humanCard /\ focus = idx
  /\ LET target == backspaceTarget(idx) IN
       /\ boxValue' = [boxValue EXCEPT ![target] = ""]
       /\ boxFilled' = [boxFilled EXCEPT ![target] = FALSE]
       /\ focus' = IF target # idx THEN FocusOn(target) ELSE focus

\* The keydown listener of box idx.
OnKeydown(idx, key) ==
  /\ humanCard /\ focus = idx
  /\ CASE key = "Backspace" ->
            /\ Backspace(idx)
            /\ UNCHANGED <<regionVars, humanVars, aiVars, winVars, scriptVars, netVars>>
       [] key = "ArrowLeft" ->
            /\ focus' = IF idx > 0 THEN FocusOn(idx - 1) ELSE focus
            /\ UNCHANGED <<boxValue, boxFilled, regionVars, humanVars, aiVars,
                           winVars, scriptVars, netVars>>
       [] key = "ArrowRight" ->
            /\ focus' = IF idx < NumBoxes - 1 THEN FocusOn(idx + 1) ELSE focus
            /\ UNCHANGED <<boxValue, boxFilled, regionVars, humanVars, aiVars,
                           winVars, scriptVars, netVars>>
       [] key = "Enter" ->
            IF idx = NumBoxes - 1 /\ ~btnHumanSubmit
              THEN submitHumanGuess
              ELSE UNCHANGED vars

\* A win the client decides from the score.
humanWonByBulls(data) == data.bulls = 4

\* if (data.won), in submitHumanGuess
humanWon(data) == data.won

\* An accepted guess that forgets hide('humanCard').
humanCardKept == humanCard

\* hide('humanCard') after an accepted guess: the display of the human card.
humanCardAfterGuess == FALSE

\* The service's record of an accepted guess it answered with data.
HumanAnswered(data) ==
  IF data.won
    THEN [svc EXCEPT !.humanWin = @ + 1,
                     !.win = [who |-> "human", secret |-> data.ai_secret]]
    ELSE [svc EXCEPT !.humanOk = @ + 1]

\* submitHumanGuess from the answer of /human-turn to its end.
HumanTurnResponse(i, data) ==
  /\ i \in 1 .. Len(inflight) /\ inflight[i].kind = "human-turn"
  /\ inflight' = Answered(i)
  /\ btnHumanSubmit' = setButtonLoading(FALSE)
  /\ IF ~data.success
       THEN /\ humanError' = showError(data.error, "Invalid guess.")
            /\ UNCHANGED <<widgetVars, regionVars, resultText, humanHistory,
                           timers, svc>>
       ELSE /\ humanHistory' = addHistoryRow(humanHistory, inflight[i].guess, data.bulls, data.cows)
            /\ boxValue' = ClearedValues
            /\ boxFilled' = ClearedFlags
            /\ humanCard' = humanCardAfterGuess
            \* clearOtpBoxes focuses the first box, hide('humanCard') blurs it
            /\ focus' = IF humanCardAfterGuess THEN 0 ELSE NoFocus
            /\ resultText' = [emoji |-> resultEmoji(data.bulls), bulls |-> data.bulls,
                              cows |-> data.cows, guess |-> inflight[i].guess]
            /\ resultFlash' = TRUE
            /\ humanError' = humanError
            /\ timers' = timers \cup
                 { IF humanWon(data)
                     THEN [fn |-> "showWinner", winner |-> "human", secret |-> data.ai_secret]
                     ELSE [fn |-> "aiTurn", winner |-> "", secret |-> NoSecret] }
            /\ svc' = HumanAnswered(data)
            /\ UNCHANGED <<aiCard, winOverlay>>
  /\ UNCHANGED <<aiVars, winVars, scriptVars, lastAlert, intervals>>

\* submitHumanGuess when fetch or res.json() throws.
HumanTurnNetworkError(i) ==
  /\ i \in 1 .. Len(inflight) /\ inflight[i].kind = "human-turn"
  /\ inflight' = Answered(i)
  /\ btnHumanSubmit' = setButtonLoading(FALSE)
  /\ humanError' = "Network error. Please try again."
  /\ UNCHANGED <<widgetVars, regionVars, resultText, humanHistory, aiVars,
                 winVars, scriptVars, lastAlert, timers, intervals, svc>>

\* ------------------------------------------------------------ the AI turn
\* A timer callback that forgets hide('resultFlash').
resultFlashKept == resultFlash

\* hide('resultFlash') in the 2.5 s timer: the display of the result flash.
resultFlashAfterDelay == FALSE

\* The 2.5 s timer of submitHumanGuess: hide('resultFlash'), then
\* triggerAiTurn up to its await.  The interval of an earlier displayAiGuess
\* (4 ticks of 180 ms) has ended by then: it began before the 2.5 s started.
AiTurnTimer(t) ==
  /\ t \in timers /\ t.fn = "aiTurn"
  /\ intervals = {}
  /\ CanFetch
  /\ timers' = timers \ {t}
  /\ resultFlash' = resultFlashAfterDelay
  /\ inflight' = Append(inflight, Request("ai-turn", <<>>, 0, 0))
  /\ svc' = [svc EXCEPT !.aiTurns = @ + 1]
  /\ UNCHANGED <<widgetVars, humanCard, aiCard, winOverlay, humanVars, aiVars,
                 winVars, scriptVars, lastAlert, intervals>>

Blank == "_"

\* displayAiGuess: the text of one tick, digits.slice(0, i + 1) and the blanks.
revealText(digits, i) ==
  [k \in 1 .. NumBoxes |-> IF k <= i + 1 THEN digits[k] ELSE Blank]

\* triggerAiTurn from the answer of /ai-turn, displayAiGuess included.
AiTurnResponse(i, data) ==
  /\ i \in 1 .. Len(inflight) /\ inflight[i].kind = "ai-turn"
  /\ inflight' = Answered(i)
  /\ IF ~data.success
       THEN /\ lastAlert' = "AI error: " \o showError(data.error, "Unknown")
            /\ UNCHANGED <<aiGuessDisplay, intervals, aiCard, svc>>
       ELSE /\ aiGuessDisplay' = [k \in 1 .. NumBoxes |-> Blank]
            /\ intervals' = intervals \cup {[digits |-> data.ai_guess, i |-> 0]}
            /\ aiCard' = TRUE
            /\ svc' = [svc EXCEPT !.aiGuess = data.ai_guess]
            /\ lastAlert' = lastAlert
  /\ UNCHANGED <<widgetVars, humanCard, resultFlash, winOverlay, humanVars,
                 aiError, btnAiFeedback, aiBulls, aiCows, aiHistory, winVars, scriptVars,
                 timers>>

\* triggerAiTurn when fetch or res.json() throws.
AiTurnNetworkError(i) ==
  /\ i \in 1 .. Len(inflight) /\ inflight[i].kind = "ai-turn"
  /\ inflight' = Answered(i)
  /\ lastAlert' = "Network error during AI turn."
  /\ UNCHANGED <<widgetVars, regionVars, humanVars, aiVars, winVars, scriptVars, timers,
                 intervals, svc>>

\* One tick of the interval of displayAiGuess.
RevealTick(iv) ==
  /\ iv \in intervals
  /\ aiGuessDisplay' = revealText(iv.digits, iv.i)
  /\ intervals' = IF iv.i + 1 >= Len(iv.digits)
                    THEN intervals \ {iv}
                    ELSE (intervals \ {iv}) \cup {[iv EXCEPT !.i = @ + 1]}
  /\ UNCHANGED <<widgetVars, regionVars, humanVars, aiError, btnAiFeedback,
                 aiBulls, aiCows, aiHistory, winVars, scriptVars, lastAlert, inflight,
                 timers, svc>>

\* The user picks a value of the #aiBulls / #aiCows select.
SelectValues == {0, 2, 3}

SelectBulls(b) ==
  /\ aiCard /\ aiBulls' = b
  /\ UNCHANGED <<widgetVars, regionVars, humanVars, aiError, btnAiFeedback,
                 aiCows, aiGuessDisplay, aiHistory, winVars, scriptVars, netVars>>

SelectCows(c) ==
  /\ aiCard /\ aiCows' = c
  /\ UNCHANGED <<widgetVars, regionVars, humanVars, aiError, btnAiFeedback,
                 aiBulls, aiGuessDisplay, aiHistory, winVars, scriptVars, netVars>>

\* A guard that checks each count alone.
ValidFeedbackEach(bulls, cows) == bulls <= 4 /\ cows <= 4

\* if (bulls + cows > 4)
ValidFeedback(bulls, cows) == ~(bulls + cows > 4)

\* submitAiFeedback, up to its first await.
submitAiFeedback ==
  LET bulls == aiBulls
      cows == aiCows
  IN
  IF ~ValidFeedback(bulls, cows)
    THEN /\ aiError' = "Bulls + Cows cannot exceed 4."
         /\ UNCHANGED <<widgetVars, regionVars, humanVars, btnAiFeedback, aiBulls,
                        aiCows, aiGuessDisplay, aiHistory, winVars, scriptVars, netVars>>
    ELSE /\ CanFetch
         /\ aiError' = ""
         /\ btnAiFeedback' = setButtonLoading(TRUE)
         /\ inflight' = Append(inflight, Request("ai-feedback", <<>>, bulls, cows))
         /\ UNCHANGED <<widgetVars, regionVars, humanVars, aiBulls, aiCows,
                        aiGuessDisplay, aiHistory, winVars, scriptVars, lastAlert, timers,
                        intervals, svc>>

\* A click on #btnAiFeedback: a hidden or disabled button takes no click.
ClickAiFeedback ==
  /\ aiCard /\ ~btnAiFeedback
  /\ submitAiFeedback

\* aiDisplay.textContent.replace(/\s/g, ''), the guess of the history row
historyGuess == aiGuessDisplay

\* The card left displayed on the winning path.
aiCardKeptOnWin(won) == won

\* hide('aiCard') on both paths of an accepted feedback: the card's display.
aiCardAfterFeedback(won) == FALSE

\* The service's record of a feedback it accepted and answered with data.
FeedbackAnswered(data) ==
  IF data.won
    THEN [svc EXCEPT !.aiWin = @ + 1, !.fed = Append(@, svc.aiGuess),
                     !.win = [who |-> "ai", secret |-> data.human_secret]]
    ELSE [svc EXCEPT !.aiOk = @ + 1, !.fed = Append(@, svc.aiGuess)]

\* submitAiFeedback from the answer of /ai-feedback to its end.
AiFeedbackResponse(i, data) ==
  /\ i \in 1 .. Len(inflight) /\ inflight[i].kind = "ai-feedback"
  /\ inflight' = Answered(i)
  /\ btnAiFeedback' = setButtonLoading(FALSE)
  /\ IF ~data.success
       THEN /\ aiError' = showError(data.error, "Invalid feedback.")
            /\ UNCHANGED <<aiCard, aiBulls, aiCows, aiHistory, timers, svc>>
       ELSE /\ aiHistory' = addHistoryRow(aiHistory, historyGuess, inflight[i].bulls, inflight[i].cows)
            /\ aiBulls' = 0
            /\ aiCows' = 0
            /\ aiCard' = aiCardAfterFeedback(data.won)
            /\ timers' = timers \cup
                 { IF data.won
                     THEN [fn |-> "showWinner", winner |-> "ai", secret |-> data.human_secret]
                     ELSE [fn |-> "showHumanTurn", winner |-> "", secret |-> NoSecret] }
            /\ svc' = FeedbackAnswered(data)
            /\ aiError' = aiError
  /\ UNCHANGED <<widgetVars, humanCard, resultFlash, winOverlay, humanVars,
                 aiGuessDisplay, winVars, scriptVars, lastAlert, intervals>>

\* submitAiFeedback when fetch or res.json() throws.
AiFeedbackNetworkError(i) ==
  /\ i \in 1 .. Len(inflight) /\ inflight[i].kind = "ai-feedback"
  /\ inflight' = Answered(i)
  /\ btnAiFeedback' = setButtonLoading(FALSE)
  /\ aiError' = "Network error. Please try again."
  /\ UNCHANGED <<widgetVars, regionVars, humanVars, aiBulls, aiCows,
                 aiGuessDisplay, aiHistory, winVars, scriptVars, lastAlert, timers,
                 intervals, svc>>

\* The 300 ms timer of submitAiFeedback: showHumanTurn.
showHumanTurn(t) ==
  /\ t \in timers /\ t.fn = "showHumanTurn"
  /\ timers' = timers \ {t}
  /\ humanCard' = TRUE
  /\ resultFlash' = FALSE
  /\ aiCard' = FALSE
  /\ focus' = 0
  /\ UNCHANGED <<boxValue, boxFilled, winOverlay, humanVars, aiVars, winVars, scriptVars,
                 lastAlert, inflight, intervals, svc>>

\* ------------------------------------------------------------ the winner
\* Array.from({ length: 140 }, ...)
NumParticles == 140

\* ctx.clearRect(0, 0, canvas.width, canvas.height): nothing drawn.
Cleared == [batch |-> 0, drawn |-> 0]

\* How many of n particles in bounds a frame may take past the bottom.
Falls(n) == { k \in {0, NumParticles \div 2, n} : k <= n }

\* launchConfetti: the batch, its first loop() and its 5 s timer.  The
\* particles start above the surface, so the first frame keeps them all.
launchConfetti ==
  /\ confetti' = confetti + 1
  /\ batches' = Append(batches, [spawned |-> NumParticles, inBounds |-> NumParticles,
                                 frame |-> TRUE, done |-> FALSE, timer |-> TRUE])
  /\ canvas' = [batch |-> Len(batches) + 1, drawn |-> NumParticles]

\* A ceiling timer that forgets cancelAnimationFrame(frame).
frameNotCancelled(k) == batches[k].frame

\* cancelAnimationFrame(frame): whether a callback of batch k stays pending.
frameAfterCancel(k) == FALSE

\* A celebration for every winner.
isHumanAlways(winner) == TRUE

\* const isHuman = winner === 'human'
isHuman(winner) == winner = "human"

\* The 2 s / 400 ms timer of a won answer: showWinner(winner, revealedSecret).
showWinner(t) ==
  /\ t \in timers /\ t.fn = "showWinner"
  /\ timers' = timers \ {t}
  /\ winTitle' = IF isHuman(t.winner) THEN "HUMAN WINS!" ELSE "AI WINS!"
  /\ winSecret' = t.secret
  /\ winOverlay' = TRUE
  /\ IF isHuman(t.winner)
       THEN launchConfetti
       ELSE UNCHANGED <<confetti, batches, canvas>>
  /\ UNCHANGED <<widgetVars, humanCard, resultFlash, aiCard, humanVars, aiVars,
                 scriptVars, lastAlert, inflight, intervals, svc>>

\* One requestAnimationFrame callback of batch k: loop().
ConfettiFrame(k) ==
  /\ k \in 1 .. Len(batches) /\ batches[k].frame
  /\ LET alive == batches[k].inBounds IN
     \E leaving \in Falls(alive) :
       /\ canvas' = IF alive > 0 THEN [batch |-> k, drawn |-> alive] ELSE Cleared
       /\ batches' = [batches EXCEPT ![k].inBounds = alive - leaving,
                                     ![k].frame = alive > 0 /\ ~batches[k].done]
  /\ UNCHANGED <<widgetVars, regionVars, humanVars, aiVars, winTitle, winSecret,
                 confetti, scriptVars, netVars>>

\* The 5 s timer of batch k; the timers fire in the order of the launches.
ConfettiCeiling(k) ==
  /\ k \in 1 .. Len(batches) /\ batches[k].timer
  /\ \A j \in 1 .. (k - 1) : ~batches[j].timer
  /\ batches' = [batches EXCEPT ![k].done = TRUE,
                                ![k].frame = frameAfterCancel(k),
                                ![k].timer = FALSE]
  /\ canvas' = Cleared
  /\ UNCHANGED <<widgetVars, regionVars, humanVars, aiVars, winTitle, winSecret,
                 confetti, scriptVars, netVars>>

\* ------------------------------------------------------- the specification
\* What /human-turn, /ai-turn and /ai-feedback may answer.
HumanTurnAnswers ==
  { [success |-> ok, error |-> e, bulls |-> sc[1], cows |-> sc[2], won |-> w,
     ai_secret |-> IF w THEN s ELSE NoSecret] :
      ok \in BOOLEAN, e \in ServiceErrors, sc \in RespScores, w \in BOOLEAN, s \in Secrets }

AiTurnAnswers ==
  { [success |-> ok, error |-> e, ai_guess |-> g] :
      ok \in BOOLEAN, e \in ServiceErrors, g \in AiGuesses }

AiFeedbackAnswers ==
  { [success |-> ok, error |-> e, won |-> w, human_secret |-> IF w THEN s ELSE NoSecret] :
      ok \in BOOLEAN, e \in ServiceErrors, w \in BOOLEAN, s \in Secrets }

\* The game page as it loads, but for its boxes: the human's turn, nothing
\* recorded.
PageAtLoad ==
  /\ humanCard = TRUE
  /\ resultFlash = FALSE
  /\ aiCard = FALSE
  /\ winOverlay = FALSE
  /\ resultText = [emoji |-> "", bulls |-> 0, cows |-> 0, guess |-> <<>>]
  /\ humanError = ""
  /\ aiError = ""
  /\ btnHumanSubmit = FALSE
  /\ btnAiFeedback = FALSE
  /\ aiBulls = 0
  /\ aiCows = 0
  /\ aiGuessDisplay = [k \in 1 .. NumBoxes |-> Blank]
  /\ humanHistory = <<>>
  /\ aiHistory = <<>>
  /\ winTitle = ""
  /\ winSecret = NoSecret
  /\ confetti = 0
  /\ lastAlert = ""
  /\ inflight = <<>>
  /\ timers = {}
  /\ intervals = {}
  /\ svc = [humanOk |-> 0, humanWin |-> 0, aiOk |-> 0, aiWin |-> 0, aiTurns |-> 0,
            aiGuess |-> <<>>, fed |-> <<>>,
            win |-> [who |-> "none", secret |-> NoSecret]]
  /\ batches = <<>>
  /\ canvas = Cleared
  /\ events = <<>>

\* The game page as it loads: the boxes empty, the first focused or none.
Init ==
  /\ boxValue = [i \in Boxes |-> ""]
  /\ boxFilled = [i \in Boxes |-> FALSE]
  /\ focus \in {NoFocus, 0}
  /\ PageAtLoad

Next ==
  \/ \E idx \in Boxes, val \in InputVals : OnInput(idx, val)
  \/ \E idx \in Boxes, key \in Keys : OnKeydown(idx, key)
  \/ \E idx \in Boxes, clip \in ClipTexts : OnPaste(idx, clip)
  \/ \E idx \in Boxes : OnClick(idx)
  \/ ClickHumanSubmit
  \/ \E i \in 1 .. Len(inflight), data \in HumanTurnAnswers : HumanTurnResponse(i, data)
  \/ \E i \in 1 .. Len(inflight) : HumanTurnNetworkError(i)
  \/ \E t \in timers : AiTurnTimer(t)
  \/ \E i \in 1 .. Len(inflight), data \in AiTurnAnswers : AiTurnResponse(i, data)
  \/ \E i \in 1 .. Len(inflight) : AiTurnNetworkError(i)
  \/ \E iv \in intervals : RevealTick(iv)
  \/ \E b \in SelectValues : SelectBulls(b)
  \/ \E c \in SelectValues : SelectCows(c)
  \/ ClickAiFeedback
  \/ \E i \in 1 .. Len(inflight), data \in AiFeedbackAnswers : AiFeedbackResponse(i, data)
  \/ \E i \in 1 .. Len(inflight) : AiFeedbackNetworkError(i)
  \/ \E t \in timers : showHumanTurn(t)
  \/ \E t \in timers : showWinner(t)
  \/ \E k \in 1 .. Len(batches) : ConfettiFrame(k)
  \/ \E k \in 1 .. Len(batches) : ConfettiCeiling(k)

Spec == Init /\ [][Next]_vars

\* ================================================================ claims
AllRevealed == \A k \in 1 .. NumBoxes : aiGuessDisplay[k] # Blank
FullGuess == Len(getOtpValue) = NumBoxes

\* C1 (as stated): each log has as many rows as the service accepted
\* non-winning submissions of that actor.
C1_RowsCountNonWinning ==
  /\ Len(humanHistory) = svc.humanOk
  /\ Len(aiHistory) = svc.aiOk

\* C1 (amended): each log has as many rows as the service accepted
\* submissions of that actor, the winning one included: every accepted
\* submission appends one row and nothing else appends.
C1_RowsCountAccepted ==
  /\ Len(humanHistory) = svc.humanOk + svc.humanWin
  /\ Len(aiHistory) = svc.aiOk + svc.aiWin

\* Both logs have a row, the AI's from its winning feedback.
C1_Witness ==
  /\ Len(humanHistory) = 1
  /\ Len(aiHistory) = 1
  /\ svc.aiWin = 1

\* C2: the win overlay, and the timer that will show it, exist only after an
\* answer with success and won, name the actor of that answer and carry the
\* secret of that answer; a 4-bulls answer without won schedules the AI turn.
C2_WinOnlyFromService ==
  /\ \A t \in timers :
       t.fn = "showWinner" => svc.win = [who |-> t.winner, secret |-> t.secret]
  /\ winOverlay =>
       /\ svc.win.who \in {"human", "ai"}
       /\ winTitle = (IF svc.win.who = "human" THEN "HUMAN WINS!" ELSE "AI WINS!")
       /\ winSecret = svc.win.secret
  /\ svc.win.who = "human" => svc.humanWin = 1 /\ svc.aiWin = 0
  /\ svc.win.who = "ai" => svc.aiWin = 1 /\ svc.humanWin = 0
  /\ svc.win.who = "none" => svc.aiWin = 0 /\ svc.humanWin = 0

C2_Witness ==
  /\ winOverlay
  /\ winTitle = "AI WINS!"
  /\ Len(humanHistory) = 1
  /\ humanHistory[1].bulls = 4

\* C3: at most one fetch is in flight.
C3_OneRequestInFlight == Len(inflight) <= 1

\* A pending guess, the boxes refilled, the focus in the last box: Enter
\* finds the button disabled.
C3_Witness ==
  /\ Len(inflight) = 1
  /\ inflight[1].kind = "human-turn"
  /\ btnHumanSubmit
  /\ FullGuess
  /\ focus = NumBoxes - 1

\* The steps that run submitHumanGuess: a click on the button, or Enter in
\* the last box with the button enabled.
HumanSubmitStep ==
  \/ ClickHumanSubmit
  \/ ~btnHumanSubmit /\ OnKeydown(NumBoxes - 1, "Enter")

\* C4: no /human-turn fetch carries a guess that is not 4 long, and a
\* submission of such a guess shows the error and changes neither the
\* regions, the boxes, the histories nor the button.
C4_GuessLengthGuard ==
  /\ [](\A i \in 1 .. Len(inflight) :
          inflight[i].kind = "human-turn" => Len(inflight[i].guess) = NumBoxes)
  /\ [][HumanSubmitStep /\ ~FullGuess =>
          /\ inflight' = inflight
          /\ humanError' = "Fill in all 4 digits."
          /\ humanCard'
          /\ ~btnHumanSubmit'
          /\ UNCHANGED <<widgetVars, regionVars, humanHistory, aiHistory>>]_vars

C4_Witness ==
  /\ humanError = "Fill in all 4 digits."
  /\ boxValue[0] # ""
  /\ boxValue[NumBoxes - 1] = ""
  /\ inflight = <<>>
  /\ ~btnHumanSubmit

\* C5: for all bulls, cows in 0..4 whose sum exceeds 4 the guard refuses;
\* no /ai-feedback fetch carries such a pair, and a refused submission shows
\* the error, appends no row and leaves the AI card displayed.
C5_FeedbackSumGuard ==
  /\ [](\A b \in 0 .. MaxScore, c \in 0 .. MaxScore :
          b + c > 4 => ~ValidFeedback(b, c))
  /\ [](\A i \in 1 .. Len(inflight) :
          inflight[i].kind = "ai-feedback" => inflight[i].bulls + inflight[i].cows <= 4)
  /\ [][ClickAiFeedback /\ ~ValidFeedback(aiBulls, aiCows) =>
          /\ inflight' = inflight
          /\ aiError' = "Bulls + Cows cannot exceed 4."
          /\ aiCard'
          /\ UNCHANGED <<regionVars, humanHistory, aiHistory>>]_vars

C5_Witness ==
  /\ aiError = "Bulls + Cows cannot exceed 4."
  /\ aiBulls = 3
  /\ aiCows = 2
  /\ aiCard
  /\ inflight = <<>>

\* C6: the feedback controls are displayed, and a feedback is in flight,
\* only with all four digits of the AI guess revealed.
C6_FeedbackAfterReveal ==
  /\ aiCard => AllRevealed
  /\ \A i \in 1 .. Len(inflight) : inflight[i].kind = "ai-feedback" => AllRevealed

\* C7: the rows of the AI log record, in order, the guesses the service
\* returned for the rounds whose feedback it accepted.
C7_AiRowsRecordServiceGuess ==
  [k \in 1 .. Len(aiHistory) |-> aiHistory[k].guess] = svc.fed

\* C8: with the win overlay displayed no fetch is in flight, no timer is
\* pending, neither card is displayed, and no step changes a region, the
\* overlay's texts or the fetches.
C8_GameWonIsTerminal ==
  /\ [](winOverlay => inflight = <<>> /\ timers = {} /\ ~humanCard /\ ~aiCard)
  /\ [][winOverlay => UNCHANGED <<regionVars, winTitle, winSecret, inflight, timers>>]_vars

\* The AI has won and the interval of its last guess is still ticking.
C8_Witness ==
  /\ winOverlay
  /\ winTitle = "AI WINS!"
  /\ intervals # {}

\* C9: launchConfetti has run once when the overlay shows the human as the
\* winner, and not at all in any other state.
C9_ConfettiOnceForHuman ==
  confetti = IF winOverlay /\ svc.win.who = "human" THEN 1 ELSE 0

C9_Witness ==
  /\ confetti = 1
  /\ winOverlay
  /\ winTitle = "HUMAN WINS!"
  /\ Len(humanHistory) = 1

\* The steps that end a /human-turn or /ai-feedback exchange in failure.
HumanTurnFails(i) ==
  \/ HumanTurnNetworkError(i)
  \/ \E data \in HumanTurnAnswers : ~data.success /\ HumanTurnResponse(i, data)

AiFeedbackFails(i) ==
  \/ AiFeedbackNetworkError(i)
  \/ \E data \in AiFeedbackAnswers : ~data.success /\ AiFeedbackResponse(i, data)

\* C10: a failed /human-turn or /ai-feedback exchange leaves the regions,
\* the histories, the boxes, the selects and the timers as they were, shows
\* the inline error and leaves the submit button enabled.
C10_FailureKeepsPhase ==
  [][\A i \in 1 .. Len(inflight) :
       /\ HumanTurnFails(i) =>
            /\ humanCard' /\ humanError' # "" /\ ~btnHumanSubmit'
            /\ UNCHANGED <<regionVars, widgetVars, humanHistory, aiHistory, timers,
                           aiBulls, aiCows>>
       /\ AiFeedbackFails(i) =>
            /\ aiCard' /\ aiError' # "" /\ ~btnAiFeedback'
            /\ UNCHANGED <<regionVars, widgetVars, humanHistory, aiHistory, timers,
                           aiBulls, aiCows>>]_vars

\* A refused feedback: the card, the chosen values and the error are there.
C10_Witness ==
  /\ aiError = "Invalid feedback."
  /\ aiCard
  /\ aiBulls = 2
  /\ ~btnAiFeedback
  /\ inflight = <<>>
  /\ humanError = ""
  /\ Len(humanHistory) = 1
  /\ aiHistory = <<>>

\* The steps that end a /ai-turn exchange in failure.
AiTurnFails(i) ==
  \/ AiTurnNetworkError(i)
  \/ \E data \in AiTurnAnswers : ~data.success /\ AiTurnResponse(i, data)

AnyRegion == humanCard \/ resultFlash \/ aiCard \/ winOverlay

\* C11: every failed exchange, /ai-turn included, ends with a region
\* displayed.
C11_FailureLeavesRegion ==
  [][\A i \in 1 .. Len(inflight) :
       (HumanTurnFails(i) \/ AiFeedbackFails(i) \/ AiTurnFails(i)) => AnyRegion']_vars

Shown(region) == IF region THEN 1 ELSE 0

\* C12 (as stated): at most one of the human card, the result flash, the AI
\* card and the win overlay is displayed.
C12_OneRegionOfFour ==
  Shown(humanCard) + Shown(resultFlash) + Shown(aiCard) + Shown(winOverlay) <= 1

\* C12 (amended): at most one of the human card, the result flash and the AI
\* card is displayed, and with the win overlay displayed neither card is; the
\* only region displayed beside the overlay is the result flash of the
\* human's winning guess.
C12_OneRegionUnderOverlay ==
  /\ Shown(humanCard) + Shown(resultFlash) + Shown(aiCard) <= 1
  /\ winOverlay => ~humanCard /\ ~aiCard
  /\ winOverlay /\ resultFlash => winTitle = "HUMAN WINS!" /\ resultText.guess = humanHistory[Len(humanHistory)].guess

\* The human has won: the overlay lies over the result flash.
C12_Witness ==
  /\ winOverlay
  /\ resultFlash
  /\ winTitle = "HUMAN WINS!"

HumanTurnPending == \E i \in 1 .. Len(inflight) : inflight[i].kind = "human-turn"
AiFeedbackPending == \E i \in 1 .. Len(inflight) : inflight[i].kind = "ai-feedback"
AiTurnTimers == { t \in timers : t.fn = "aiTurn" }

\* C13: every accepted non-winning guess has its one /ai-turn fetch, issued
\* or still on its timer, and the human card is displayed, or a guess in
\* flight, only with every accepted guess answered by an accepted
\* non-winning feedback.
C13_TurnsAlternate ==
  /\ svc.aiTurns + Cardinality(AiTurnTimers) = svc.humanOk
  /\ svc.aiOk <= svc.humanOk /\ svc.humanOk <= svc.aiOk + 1
  /\ humanCard \/ HumanTurnPending =>
       /\ svc.humanOk = svc.aiOk
       /\ svc.aiTurns = svc.humanOk
       /\ svc.aiWin = 0
       /\ ~AiFeedbackPending
  /\ HumanTurnPending => humanCard

\* The second human turn: one guess, one /ai-turn, one feedback behind it.
C13_Witness ==
  /\ humanCard
  /\ svc.humanOk = 1
  /\ svc.aiTurns = 1
  /\ svc.aiOk = 1
  /\ FullGuess

\* C20: each submit button is disabled exactly while a fetch of its handler
\* is in flight.
C20_DisabledWhileInFlight ==
  /\ btnHumanSubmit <=> HumanTurnPending
  /\ btnAiFeedback <=> AiFeedbackPending

\* The feedback button enabled again after a refused feedback.
C20_Witness ==
  /\ ~btnAiFeedback
  /\ aiCard
  /\ aiError = "Rejected by the service."
  /\ ~btnHumanSubmit
  /\ Len(humanHistory) = 1

\* C19: every box holds nothing or one digit, and has the class 'filled'
\* exactly when it holds a digit.
C19_FilledIffDigit ==
  \A i \in Boxes :
    /\ boxValue[i] \in DigitChars \cup {""}
    /\ boxFilled[i] <=> boxValue[i] \in DigitChars

\* The boxes after a cleared guess and a paste of two digits into them.
C19_Witness ==
  /\ Len(humanHistory) = 1
  /\ humanCard
  /\ boxFilled[0] /\ boxFilled[1] /\ ~boxFilled[2] /\ ~boxFilled[NumBoxes - 1]
  /\ focus = 2

\* ============================================== the boxes and the confetti
\* ------------------------------------------------ a session of typed digits
\* The user types a digit into the focused box; the session records it.
TypeDigit(d) ==
  /\ Len(events) < NumBoxes
  /\ Input(focus, <<d>>)
  /\ events' = Append(events, d)
  /\ UNCHANGED <<regionVars, humanVars, aiVars, winVars, netVars>>

\* The page as it loads with its first box focused.
InitType ==
  /\ boxValue = [i \in Boxes |-> ""]
  /\ boxFilled = [i \in Boxes |-> FALSE]
  /\ focus = 0
  /\ PageAtLoad

NextType == \E d \in DigitChars : TypeDigit(d)

SpecType == InitType /\ [][NextType]_vars

\* C14: after k digits typed into the empty group the boxes read those k
\* digits in order, and the focus is in box k, or in the last box after the
\* fourth.
C14_TypedIsRead ==
  LET k == Len(events) IN
    /\ getOtpValue = events
    /\ \A i \in Boxes : i < k => boxValue[i] = events[i + 1]
    /\ focus = IF k < NumBoxes THEN k ELSE NumBoxes - 1

C14_Witness ==
  /\ events = <<"4", "0", "4", "2">>
  /\ getOtpValue = <<"4", "0", "4", "2">>
  /\ focus = NumBoxes - 1

\* -------------------------------------------- a session of delete-backward
\* The digits of the filled group the session starts from.
FilledDigits == {"1", "2", "3"}

\* The user presses Backspace in the focused box; the session records it.
PressBackspace ==
  /\ Len(events) < NumBoxes
  /\ Backspace(focus)
  /\ events' = Append(events, "Backspace")
  /\ UNCHANGED <<regionVars, humanVars, aiVars, winVars, netVars>>

\* The page after four digits were typed: every box filled, the last focused.
InitBackspace ==
  /\ boxValue \in [Boxes -> FilledDigits]
  /\ boxFilled = [i \in Boxes |-> TRUE]
  /\ focus = NumBoxes - 1
  /\ PageAtLoad

NextBackspace == PressBackspace

SpecBackspace == InitBackspace /\ [][NextBackspace]_vars

\* C16: after k presses of Backspace from the filled group the last k boxes
\* are empty and unflagged, the others still hold their digit, and after the
\* fourth press the focus is in the first box.
C16_BackspaceEmptiesGroup ==
  LET k == Len(events) IN
    /\ \A i \in Boxes :
         IF i < NumBoxes - k
           THEN boxValue[i] \in FilledDigits /\ boxFilled[i]
           ELSE boxValue[i] = "" /\ ~boxFilled[i]
    /\ k = NumBoxes => focus = 0

C16_Witness ==
  /\ Len(events) = NumBoxes
  /\ getOtpValue = <<>>
  /\ focus = 0

\* ------------------------------------------------------- the boxes at large
OtpInputVals == { <<>>, <<"1">>, <<"2">>, <<"1", "2">>, <<"x">> }
OtpClipTexts ==
  { <<>>, <<"x">>, <<"2", "-", "1">>, <<"a", "2", "1", "b", "1", "2", "1">> }
OtpKeys == {"Backspace", "ArrowLeft", "ArrowRight"}

NextOtp ==
  \/ \E idx \in Boxes, val \in OtpInputVals : OnInput(idx, val)
  \/ \E idx \in Boxes, key \in OtpKeys : OnKeydown(idx, key)
  \/ \E idx \in Boxes, clip \in OtpClipTexts : OnPaste(idx, clip)
  \/ \E idx \in Boxes : OnClick(idx)

SpecOtp == Init /\ [][NextOtp]_vars

\* The digits of a clipboard text, in order.
DigitsOf(clip) == SelectSeq(clip, LAMBDA ch : ch \in DigitChars)

\* C15: a paste writes the first min(4, d) digits of the clipboard into
\* boxes 0.., flags them, leaves the other boxes as they were, and focuses
\* the first empty box, or the last box when none is empty.
C15_PasteFillsFromFirstBox ==
  [][\A idx \in Boxes, clip \in OtpClipTexts :
       OnPaste(idx, clip) =>
         LET ds == DigitsOf(clip)
             n == IF Len(ds) < 4 THEN Len(ds) ELSE 4
             empty == { i \in Boxes : boxValue'[i] = "" }
         IN
           /\ \A i \in Boxes :
                IF i < n
                  THEN boxValue'[i] = ds[i + 1] /\ boxFilled'[i]
                  ELSE boxValue'[i] = boxValue[i] /\ boxFilled'[i] = boxFilled[i]
           /\ IF empty = {}
                THEN focus' = 3
                ELSE focus' \in empty /\ \A i \in empty : focus' <= i]_vars

\* Two digits pasted over a group whose last two boxes were filled.
C15_Witness ==
  /\ boxValue = [i \in Boxes |-> IF i = 0 \/ i = 2 THEN "2" ELSE "1"]
  /\ \A i \in Boxes : boxFilled[i]
  /\ focus = 3

\* ------------------------------------------------- launchConfetti at large
\* The number of launchConfetti calls.
MaxLaunches == 2

\* A call of launchConfetti.
CallLaunchConfetti ==
  /\ Len(batches) < MaxLaunches
  /\ launchConfetti
  /\ UNCHANGED <<widgetVars, regionVars, humanVars, aiVars, winTitle, winSecret,
                 scriptVars, netVars>>

NextConfetti ==
  \/ CallLaunchConfetti
  \/ \E k \in 1 .. Len(batches) : ConfettiFrame(k)
  \/ \E k \in 1 .. Len(batches) : ConfettiCeiling(k)

SpecConfetti == Init /\ [][NextConfetti]_vars

\* C17: a batch has 140 particles; once its 5 s timer has fired no callback
\* of it is pending, the surface is cleared, and no step changes the batch or
\* draws on the surface, whatever particles remain in bounds.
C17_CeilingStopsBatch ==
  /\ [](\A k \in 1 .. Len(batches) :
          /\ batches[k].spawned = 140
          /\ batches[k].done =>
               ~batches[k].frame /\ ~batches[k].timer /\ canvas = Cleared)
  /\ [][\A k \in 1 .. Len(batches) :
          batches[k].done => batches'[k] = batches[k] /\ canvas' = canvas]_vars

\* The timer has fired with half of the particles still in bounds.
C17_Witness ==
  /\ Len(batches) = 1
  /\ batches[1].done
  /\ batches[1].inBounds = 70
  /\ canvas = Cleared
  /\ winOverlay

\* C18: after a later launch no callback and no timer of an earlier batch is
\* pending, and the surface shows the newest batch or nothing.
C18_RelaunchDiscardsEarlier ==
  /\ \A k \in 1 .. (Len(batches) - 1) : ~batches[k].frame /\ ~batches[k].timer
  /\ canvas.batch \in {0, Len(batches)}
====
